---- MODULE Spec2Model ----
(***************************************************************************)
(* Model of app.py (Casting Expose Generator): the retrying caller, the    *)
(* adaptive extraction strategy (process_adaptive), the duplicate detector *)
(* (find_duplicates) and the photo categorizer (analyze_photos).           *)
(***************************************************************************)
EXTENDS Integers, Sequences, FiniteSets, TLC

\* ------------------------------------------------------------------ bounds
\* Largest number of document images handed to process_adaptive.
MaxImages == 4
\* Largest number of photos handed to analyze_photos / find_duplicates.
MaxPhotos == 3
\* Largest number of lines of a categorization response.
MaxLines == 2
\* Largest number of lines of a text handed to parse_content.
MaxContentLines == 3
\* Largest number of photos of a project package.
MaxPackagePhotos == 5

\* ------------------------------------------------------- program constants
MaxRetries == 3
BatchSize == 3
BatchedMinImages == 3
DefaultRetryDelay == 30
RetryDelayMargin == 5
StageDelayCap == 30
MinSequentialDelay == 5
HashSize == 8
DefaultThreshold == 10

\* A text is the sequence of its lines, a line the sequence of its '|'-separated
\* fields.  Python's None as a return value: no response text equals it.
NoneValue == << <<"<None>">> >>

Min(a, b) == IF a < b THEN a ELSE b
Max(a, b) == IF a > b THEN a ELSE b

\* ------------------------------------------------------------ error texts
\* str(error) as the sequence of its words.  The code only ever looks at the
\* text of an exception (is_rate_limit_error, get_retry_delay).
ErrorTexts ==
    { <<"429", "Quota", "exceeded">>,
      <<"Rate", "retry_delay", "7">>,
      <<"limit", "retry_delay", "40">>,
      <<"cannot", "generate">>,
      <<"boom">>,
      <<"invalid", "retry_delay", "3">> }

\* str.lower() on one word.
Lower(w) ==
    CASE w = "Quota" -> "quota"
      [] w = "Rate"  -> "rate"
      [] OTHER       -> w

\* The rate-limit markers that are substrings of a lower-cased word.
MarkersIn(w) ==
    CASE w = "429"      -> {"429"}
      [] w = "quota"    -> {"quota"}
      [] w = "rate"     -> {"rate"}
      [] w = "limit"    -> {"limit"}
      [] w = "generate" -> {"rate"}
      [] OTHER          -> {}

\* int() of a run of digits; the words that are digit runs are its domain.
DigitValue == [w \in {"3", "7", "40"} |-> CASE w = "3" -> 3 [] w = "7" -> 7 [] OTHER -> 40]

\* is_rate_limit_error: "429", "quota", "rate" or "limit" occurs in str(error).lower()
IsRateLimitError(error) ==
    \E p \in 1..Len(error) : MarkersIn(Lower(error[p])) # {}

\* get_retry_delay: re.search(r'retry_delay.*?(\d+)'): the first digit run after
\* the first "retry_delay", plus 5; 30 when there is no match.
GetRetryDelay(error) ==
    LET starts == { p \in 1..Len(error) :
                      /\ error[p] = "retry_delay"
                      /\ \E q \in (p+1)..Len(error) : error[q] \in DOMAIN DigitValue }
    IN IF starts = {} THEN DefaultRetryDelay
       ELSE LET p == CHOOSE x \in starts : \A y \in starts : x <= y
                q == CHOOSE x \in (p+1)..Len(error) :
                        /\ error[x] \in DOMAIN DigitValue
                        /\ \A y \in (p+1)..(x-1) : error[y] \notin DOMAIN DigitValue
            IN DigitValue[error[q]] + RetryDelayMargin

ShouldRetryAnyError(error, att) == att < MaxRetries - 1

ShouldRetryOneLess(error, att) == IsRateLimitError(error) /\ att < MaxRetries - 2

ShouldRetryOnceMore(error, att) == IsRateLimitError(error) /\ att < MaxRetries

\* call_gemini_with_retry, line 245: retry only a rate-limit failure with attempts left.
ShouldRetry(error, att) == IsRateLimitError(error) /\ att < MaxRetries - 1

\* wait_with_countdown: sleeps only for a positive number of seconds.
Sleeps(seconds) == seconds > 0

TruthyAlways(r) == TRUE

\* python truthiness of a call result (`if result:`)
Truthy(r) == r # <<>> /\ r # NoneValue

\* ------------------------------------------------- perceptual hash, duplicates
\* A photo as PIL hands it to the hash after convert('L') and
\* resize((hash_size + 1, hash_size)): the row-major list of its gray pixels.
\* TestImage(k) is a photo whose first k cells fall from left to right.
TestImage(k) ==
    [p \in 1..((HashSize + 1) * HashSize) |->
        LET row == (p - 1) \div (HashSize + 1)
            col == (p - 1) % (HashSize + 1)
            b   == Max(0, Min(HashSize, k - HashSize * row))
        IN IF col < b THEN b - col ELSE 0]

\* The photos of the model, named by the number of falling cells.
PhotoPool == {0, 5, 10}

\* get_image_hash: diff[row * hash_size + col] = left > right
GetImageHash(pixels) ==
    [c \in 1..(HashSize * HashSize) |->
        LET row == (c - 1) \div HashSize
            col == (c - 1) % HashSize
        IN pixels[row * (HashSize + 1) + col + 1] > pixels[row * (HashSize + 1) + col + 2]]

RECURSIVE SumDiffering(_, _, _)
SumDiffering(hash1, hash2, k) ==
    IF k > Min(Len(hash1), Len(hash2)) THEN 0
    ELSE (IF hash1[k] # hash2[k] THEN 1 ELSE 0) + SumDiffering(hash1, hash2, k + 1)

\* hamming_distance: sum(a != b for a, b in zip(hash1, hash2))
HammingDistance(hash1, hash2) == SumDiffering(hash1, hash2, 1)

IsNearDuplicateInverted(hash1, hash2, thr) == HammingDistance(hash1, hash2) > thr

\* find_duplicates, line 182: strictly fewer than threshold differing bits
IsNearDuplicate(hash1, hash2, thr) == HammingDistance(hash1, hash2) < thr

MarkedIndexEarlier(i, j) == i

\* find_duplicates, line 183: duplicates.add(j), the later image
MarkedIndex(i, j) == j

\* The hashes of the pool's photos (get_image_hash is computed once per photo).
PoolHash == [k \in PhotoPool |-> GetImageHash(TestImage(k))]

\* find_duplicates (175-185): indices are Python's, 0-based
FindDuplicates(imgs, thr) ==
    LET hashes == [x \in 1..Len(imgs) |-> PoolHash[imgs[x]]]
    IN { MarkedIndex(pr[1], pr[2]) :
           pr \in { q \in (0..(Len(imgs) - 1)) \X (0..(Len(imgs) - 1)) :
                      /\ q[1] < q[2]
                      /\ IsNearDuplicate(hashes[q[1] + 1], hashes[q[2] + 1], thr) } }

\* an ascending sequence of the members of a finite set of integers
RECURSIVE Ascending(_)
Ascending(S) ==
    IF S = {} THEN <<>>
    ELSE LET m == CHOOSE x \in S : \A y \in S : x <= y
         IN <<m>> \o Ascending(S \ {m})

\* analyze_photos, line 265: [i for i in range(len(images)) if i not in duplicates]
UniqueIndices(n, dups) == Ascending({ i \in 0..(n - 1) : i \notin dups })

\* ----------------------------------------------------- categorization response
\* None as family_photo_idx
NoIndex == 0 - 1

\* int(parts[0].strip()): the fields int() accepts, with their values
IntFields == {"0", "1", "2"}
IntValue(f) == CASE f = "0" -> 0 [] f = "1" -> 1 [] OTHER -> 2

\* parts[1].strip().upper()
CategoryOf(f) ==
    CASE f = "familie"  -> "FAMILIE"
      [] f = " Garten " -> "GARTEN"
      [] f = "Haus"     -> "HAUS"
      [] OTHER          -> f

\* line 298: the categories that make a photo a garden photo
GardenCategories == {"GARTEN", "HAUS", "SONSTIGES"}

\* unique_indices[photo_idx] with Python's index rules: a negative index counts
\* from the end; "raises" tells an IndexError
PyIndex(seq, k) ==
    IF k >= 0 /\ k < Len(seq) THEN [raises |-> FALSE, value |-> seq[k + 1]]
    ELSE IF k < 0 /\ k >= 0 - Len(seq) THEN [raises |-> FALSE, value |-> seq[Len(seq) + k + 1]]
    ELSE [raises |-> TRUE, value |-> NoIndex]

\* lines 292-293: only the first FAMILIE record sets family_photo_idx
FamilyElection(family, category, real_idx) ==
    IF category = "FAMILIE" /\ family = NoIndex THEN real_idx ELSE family

\* lines 280-295: one line of the response; st = [categories, family]
ParseLine(st, line, unique) ==
    IF Len(line) < 2 THEN st                              \* no '|' in line
    ELSE IF line[1] \notin IntFields THEN st              \* int() raises: except: pass
    ELSE LET photo_idx == IntValue(line[1]) - 1
             category  == CategoryOf(line[2])
         IN IF ~(photo_idx < Len(unique)) THEN st
            ELSE LET at == PyIndex(unique, photo_idx)
                 IN IF at.raises THEN st                  \* IndexError: except: pass
                    ELSE [categories |-> [st.categories EXCEPT ![at.value] = category],
                          family |-> FamilyElection(st.family, category, at.value)]

RECURSIVE ParseLines(_, _, _, _)
ParseLines(st, lines, k, unique) ==
    IF k > Len(lines) THEN st
    ELSE ParseLines(ParseLine(st, lines[k], unique), lines, k + 1, unique)

\* lines 276-300: the result of analyze_photos for a response text.  categories
\* maps an original index to its category, "" when the dict has no such key.
AnalyzeResponse(response, n, unique, dups) ==
    LET st == ParseLines([categories |-> [i \in 0..(n - 1) |-> ""], family |-> NoIndex],
                         response, 1, unique)
    IN [garden |-> SelectSeq(unique, LAMBDA i : st.categories[i] \in GardenCategories),
        family |-> st.family,
        duplicates |-> dups]

AnalyzeFallbackNothing(unique, dups) ==
    [garden |-> <<>>, family |-> NoIndex, duplicates |-> dups]

\* lines 302-304: the categorization failed, use all photos
AnalyzeFallback(unique, dups) ==
    [garden |-> unique, family |-> NoIndex, duplicates |-> dups]

\* The lines a categorization response is made of.
ResponseLines ==
    { <<"Hier die Analyse:">>, <<"x", "familie", "Beschreibung">> } \cup
    { <<i, c, "Beschreibung">> : i \in IntFields, c \in {"familie", " Garten ", "UNBEKANNT"} }

RECURSIVE SeqsUpTo(_, _)
SeqsUpTo(S, n) ==
    IF n = 0 THEN { <<>> }
    ELSE LET shorter == SeqsUpTo(S, n - 1)
         IN shorter \cup { Append(q, x) : q \in { r \in shorter : Len(r) = n - 1 }, x \in S }

CategorizeResponses == SeqsUpTo(ResponseLines, MaxLines)

\* -------------------------------------------------------------- parse_content
\* A string is a sequence of chunks: words, the blank " " and the delimiter "|||".
\* A text is a sequence of lines (content.split('\n')).
Blank == " "
Delimiter == "|||"

RECURSIVE StripLeft(_)
StripLeft(s) == IF s # <<>> /\ Head(s) = Blank THEN StripLeft(Tail(s)) ELSE s

RECURSIVE StripRight(_)
StripRight(s) ==
    IF s # <<>> /\ s[Len(s)] = Blank THEN StripRight(SubSeq(s, 1, Len(s) - 1)) ELSE s

\* str.strip()
Strip(s) == StripRight(StripLeft(s))

\* '|||' in line
HasDelimiter(s) == \E k \in 1..Len(s) : s[k] = Delimiter

\* line.split('|||'): the parts between the delimiters
RECURSIVE SplitFrom(_, _, _)
SplitFrom(s, part, parts) ==
    IF s = <<>> THEN Append(parts, part)
    ELSE IF Head(s) = Delimiter THEN SplitFrom(Tail(s), <<>>, Append(parts, part))
    ELSE SplitFrom(Tail(s), Append(part, Head(s)), parts)

Split(s) == SplitFrom(s, <<>>, <<>>)

\* str.upper() of a chunk
UpperChunk(c) ==
    CASE c = "Familienmitglieder:" -> "FAMILIENMITGLIEDER:"
      [] c = "Fakten zum Garten:"  -> "FAKTEN ZUM GARTEN:"
      [] c = "Budget:"             -> "BUDGET:"
      [] c = "Wünsche:"            -> "WÜNSCHE:"
      [] c = "Die Familie"         -> "DIE FAMILIE"
      [] c = "Hintergrund"         -> "HINTERGRUND"
      [] c = "Notizen"             -> "NOTIZEN"
      [] c = "Besonderheiten"      -> "BESONDERHEITEN"
      [] c = "Anna"                -> "ANNA"
      [] c = "Text"                -> "TEXT"
      [] c = "offen"               -> "OFFEN"
      [] OTHER                     -> c

\* the words of the section tests that are substrings of an upper-case chunk
WordsIn(u) ==
    CASE u = "FAMILIENMITGLIEDER:" -> {"FAMILIENMITGLIEDER", "FAMILIE"}
      [] u = "FAKTEN ZUM GARTEN:"  -> {"FAKTEN ZUM GARTEN"}
      [] u = "WÜNSCHE:"            -> {"WÜNSCHE"}
      [] u = "FAMILIE"             -> {"FAMILIE"}
      [] u = "DIE FAMILIE"         -> {"FAMILIE"}
      [] u = "/"                   -> {"/"}
      [] u = "HINTERGRUND"         -> {"HINTERGRUND"}
      [] u = "NOTIZEN"             -> {"NOTIZEN"}
      [] u = "BESONDERHEITEN"      -> {"BESONDERHEITEN"}
      [] OTHER                     -> {}

\* word in line_upper
InUpper(word, line) == \E k \in 1..Len(line) : word \in WordsIn(UpperChunk(line[k]))

\* line.startswith('-')
StartsWithDash(line) == line # <<>> /\ Head(line) = "-"

\* line_upper.startswith('BUDGET')
StartsWithBudget(line) == line # <<>> /\ UpperChunk(Head(line)) \in {"BUDGET", "BUDGET:"}

\* the first match of [\d.,]+ in a chunk, "" when there is none
NumberIn(c) == IF c = "5.000" THEN "5.000" ELSE ""

\* re.search(r'[\d.,]+', line): the match object, found = FALSE for None
RECURSIVE BudgetSearch(_)
BudgetSearch(line) ==
    IF line = <<>> THEN [found |-> FALSE, group |-> <<>>]
    ELSE IF NumberIn(Head(line)) # "" THEN [found |-> TRUE, group |-> <<NumberIn(Head(line))>>]
    ELSE BudgetSearch(Tail(line))

BudgetOfUnguarded(budget, line) ==
    LET budget_match == BudgetSearch(line)
    IN [raises |-> ~budget_match.found, value |-> Strip(budget_match.group)]

\* lines 461-463: the budget after a BUDGET line; "raises" tells an AttributeError
BudgetOf(budget, line) ==
    LET budget_match == BudgetSearch(line)
    IN IF budget_match.found
       THEN [raises |-> FALSE, value |-> Strip(budget_match.group)]
       ELSE [raises |-> FALSE, value |-> budget]

\* lines 426-435: the data dictionary before the first line
DefaultData ==
    [family_name |-> <<"FAMILIE">>, city |-> <<"ORT">>, members |-> <<>>,
     garden_facts |-> <<>>, budget |-> <<>>, wishes |-> <<>>, background |-> <<>>,
     notes |-> <<>>]

\* line 446: the second half of the title test
TitleGuard(d) == d.family_name = <<"FAMILIE">>

\* lines 447-449: family name and city of a title line
TitleOf(line) ==
    LET parts == Split(line)
    IN [family_name |-> Strip(parts[1]),
        city |-> IF Len(parts) > 1 THEN Strip(parts[2]) ELSE <<>>]

\* lines 454-475: the section a header line opens, "" for a line that is no header
HeaderOf(line) ==
    IF InUpper("FAMILIENMITGLIEDER", line) THEN "members"
    ELSE IF InUpper("FAKTEN ZUM GARTEN", line) THEN "garden"
    ELSE IF StartsWithBudget(line) THEN "budget"
    ELSE IF InUpper("WÜNSCHE", line) THEN "wishes"
    ELSE IF InUpper("HINTERGRUND", line) \/ (InUpper("FAMILIE", line) /\ InUpper("/", line))
    THEN "background"
    ELSE IF InUpper("BESONDERHEITEN", line) \/ InUpper("NOTIZEN", line) THEN "notes"
    ELSE ""

\* lines 478-487: a content line goes to the open section
AddContent(d, section, line) ==
    IF section = "members" /\ StartsWithDash(line)
    THEN [d EXCEPT !.members = Append(@, Strip(Tail(line)))]
    ELSE IF section = "garden" /\ StartsWithDash(line)
    THEN [d EXCEPT !.garden_facts = Append(@, Strip(Tail(line)))]
    ELSE IF section = "wishes" /\ StartsWithDash(line)
    THEN [d EXCEPT !.wishes = Append(@, Strip(Tail(line)))]
    ELSE IF section = "background" /\ ~StartsWithDash(line)
    THEN [d EXCEPT !.background = @ \o line \o <<Blank>>]
    ELSE IF section = "notes" /\ ~StartsWithDash(line)
    THEN [d EXCEPT !.notes = @ \o line \o <<Blank>>]
    ELSE d

\* lines 440-487: one turn of the loop; st = [data, section, titles, line_no,
\* raises], section "None" for current_section = None
ParseContentLine(st, raw) ==
    LET line == Strip(raw)
    IN IF line = <<>> THEN st
       ELSE IF HasDelimiter(line) /\ TitleGuard(st.data)
       THEN [st EXCEPT !.data.family_name = TitleOf(line).family_name,
                       !.data.city = TitleOf(line).city,
                       !.titles = Append(@, st.line_no)]
       ELSE IF HeaderOf(line) = "budget"
       THEN LET b == BudgetOf(st.data.budget, line)
            IN [st EXCEPT !.data.budget = b.value, !.section = "None", !.raises = b.raises]
       ELSE IF HeaderOf(line) # "" THEN [st EXCEPT !.section = HeaderOf(line)]
       ELSE [st EXCEPT !.data = AddContent(st.data, st.section, line)]

\* lines 489-490: the final strip of the two text fields
FinalStrip(d) ==
    [d EXCEPT !.background = Strip(@), !.notes = Strip(@)]

\* The lines the texts given to parse_content are made of.
ContentLines ==
    { <<"MÜLLER", "|||", " ", "KÖLN", " ">>,
      <<"FAMILIE", "|||", "BONN">>,
      <<"MEIER", "|||", "BERLIN">>,
      <<"Familienmitglieder:">>,
      <<"-", " ", "Anna">>,
      <<"Fakten zum Garten:">>,
      <<"Budget:", " ", "5.000", " ", "€">>,
      <<"BUDGET", " ", "offen">>,
      <<"Wünsche:">>,
      <<"Die Familie", " ", "/", " ", "Hintergrund">>,
      <<"Notizen">>,
      <<"Text">>,
      <<" ">> }

\* ----------------------------------------- project serializer / deserializer
\* The round-trip format of section 4.7 of the specification.  A JSON value is
\* the sequence of the chunks of its text; a JSON object is a sequence of
\* [key, value] pairs.
Marker == "EXPOSE_PROJECT"
FormatVersion == "1.0"
IndexName == "photo_index.json"
Null == [kind |-> "null"]

\* the JSON escape of a chunk of a string, and its inverse
EscapeChunk(c) ==
    CASE c = "\"" -> "\\\""
      [] c = "\n" -> "\\n"
      [] c = "\\n" -> "\\\\n"
      [] c = "ü"  -> "\\u00fc"
      [] OTHER    -> c

UnescapeChunk(c) ==
    CASE c = "\\\"" -> "\""
      [] c = "\\n" -> "\n"
      [] c = "\\\\n" -> "\\n"
      [] c = "\\u00fc" -> "ü"
      [] OTHER    -> c

JsonString(s) == [k \in 1..Len(s) |-> EscapeChunk(s[k])]
StringOf(v) == [k \in 1..Len(v) |-> UnescapeChunk(v[k])]

JsonBool(b) == << IF b THEN "true" ELSE "false" >>
BoolOf(v) == v = <<"true">>

JsonNumber(n) ==
    << CASE n = 0 -> "0" [] n = 1 -> "1" [] n = 2 -> "2" [] n = 3 -> "3"
         [] n = 4 -> "4" [] n = 5 -> "5" [] n = 6 -> "6" [] OTHER -> "7" >>

\* obj[key] of a parsed JSON object; has = FALSE when the key is missing
RECURSIVE JsonGet(_, _)
JsonGet(obj, key) ==
    IF obj = <<>> THEN [has |-> FALSE, value |-> <<>>]
    ELSE IF Head(obj).key = key THEN [has |-> TRUE, value |-> Head(obj).value]
    ELSE JsonGet(Tail(obj), key)

\* the package written into the subject field
PackageJson(markdown, count) ==
    << [key |-> "marker", value |-> JsonString(<<Marker>>)],
       [key |-> "version", value |-> JsonString(<<FormatVersion>>)],
       [key |-> "markdown", value |-> JsonString(markdown)],
       [key |-> "photoCount", value |-> JsonNumber(count)],
       [key |-> "createdTimestamp", value |-> JsonString(<<"now">>)] >>

IndexEntryNoFamily(photo) ==
    << [key |-> "name", value |-> JsonString(<<photo.filename>>)],
       [key |-> "is_family", value |-> JsonBool(FALSE)],
       [key |-> "selected", value |-> JsonBool(TRUE)] >>

\* one entry of photo_index.json: {name, is_family, selected}
IndexEntry(photo) ==
    << [key |-> "name", value |-> JsonString(<<photo.filename>>)],
       [key |-> "is_family", value |-> JsonBool(photo.isFamilyPhoto)],
       [key |-> "selected", value |-> JsonBool(TRUE)] >>

\* the attachments of a PDF are looked up by name; adding under a name that is
\* taken replaces the attachment
RECURSIVE AttachPhotos(_, _)
AttachPhotos(attachments, photoList) ==
    IF photoList = <<>> THEN attachments
    ELSE AttachPhotos((Head(photoList).filename :> [kind |-> "bytes", body |-> Head(photoList).bytes])
                         @@ attachments,
                      Tail(photoList))

\* embed(pdfBytes, markdownText, photos) -> pdfBytes; the pages are left alone
embed(pdfBytes, markdown, photoList) ==
    [pages |-> pdfBytes.pages,
     subject |-> [kind |-> "json", body |-> PackageJson(markdown, Len(photoList))],
     attachments |->
        (IndexName :> [kind |-> "json",
                       body |-> [k \in 1..Len(photoList) |-> IndexEntry(photoList[k])]])
           @@ AttachPhotos(pdfBytes.attachments, photoList)]

\* decoding attachment bytes as an image
Decodes(bytes) == bytes \in {"img1", "img2", "img3"}

\* the photos of the index whose attachment exists and decodes, in index order
RECURSIVE ReadPhotos(_, _)
ReadPhotos(index, attachments) ==
    IF index = <<>> THEN <<>>
    ELSE LET name == StringOf(JsonGet(Head(index), "name").value)[1]
             rest == ReadPhotos(Tail(index), attachments)
         IN IF name \in DOMAIN attachments /\ attachments[name].kind = "bytes"
               /\ Decodes(attachments[name].body)
            THEN << [filename |-> name, bytes |-> attachments[name].body,
                     isFamilyPhoto |-> BoolOf(JsonGet(Head(index), "is_family").value),
                     selected |-> BoolOf(JsonGet(Head(index), "selected").value)] >> \o rest
            ELSE rest

\* extract(pdfBytes) -> ProjectPackage | null
extract(pdfBytes) ==
    IF pdfBytes.subject.kind # "json" THEN Null
    ELSE IF ~JsonGet(pdfBytes.subject.body, "marker").has THEN Null
    ELSE IF StringOf(JsonGet(pdfBytes.subject.body, "marker").value) # <<Marker>> THEN Null
    ELSE [kind |-> "package",
          marker |-> Marker,
          version |-> StringOf(JsonGet(pdfBytes.subject.body, "version").value),
          markdownText |-> StringOf(JsonGet(pdfBytes.subject.body, "markdown").value),
          photos |-> IF IndexName \in DOMAIN pdfBytes.attachments
                     THEN ReadPhotos(pdfBytes.attachments[IndexName].body,
                                     pdfBytes.attachments)
                     ELSE <<>>]

\* ------------------------------------------------------------------ state
VARIABLES
    prog,             \* the entry point that runs: "process_adaptive",
                      \* "analyze_photos" or "find_duplicates"
    threshold,        \* find_duplicates: the threshold argument
    duplicates,       \* the set find_duplicates returned
    unique_indices,   \* analyze_photos: unique_indices
    garden_photos,    \* analyze_photos: first value returned
    family_photo_idx, \* analyze_photos: second value returned
    images,           \* the images argument, a sequence
    additional_text,  \* the additional_text argument
    delay,            \* the delay argument
    service,          \* behaviour of the generation service in this run
    pc,               \* position in the running code
    stage,            \* the stage process_adaptive is in
    request,          \* contents of the generation call being made
    attempt,          \* call_gemini_with_retry: the loop variable
    err,              \* the exception being handled or raised
    resp,             \* what the last call_gemini_with_retry returned
    batch_num,        \* strategy_in_batches: batch_num, strategy_one_by_one: i
    extracted_parts,  \* the strategies' extracted_parts
    result,           \* value returned to the caller
    outcome,          \* "running", "returned" or "raised"
    stages,           \* history: the stages entered, in order
    callCount,        \* history: generation calls made (model.generate_content)
    waitCount,        \* history: waits slept (wait_with_countdown with seconds > 0)
    callWaits,        \* history: waits slept inside the current call_gemini_with_retry
    callAttempts,     \* history: attempts made by the current call_gemini_with_retry
    rlStreak,         \* history: consecutive rate-limited attempts of the current call
    lastResp,         \* history: the last successful generation call
    otherFail,        \* history: counters at the first failure not classified rate-limit
    issued,           \* history: the call_gemini_with_retry requests of the current stage
    groupResults,     \* history: what the group calls of the current strategy returned
    content,          \* parse_content: the lines of the content argument
    line_no,          \* parse_content: the number of the next line of the loop
    data,             \* parse_content: data
    current_section,  \* parse_content: current_section, "None" for None
    titles,           \* history: the lines parse_content has taken as title line
    markdownText,     \* round trip: the Markdown text given to embed
    photos,           \* round trip: the photos given to embed
    pdf,              \* round trip: the PDF, as rendered and then with the package
    package           \* round trip: what extract returned

adaptiveVarsButPcOutcome ==
    <<prog, images, additional_text, delay, service, stage, request, attempt, err, resp,
      batch_num, extracted_parts, result, stages, callCount, waitCount, callWaits,
      callAttempts, rlStreak, lastResp, otherFail, issued, groupResults>>

photoVars == <<threshold, duplicates, unique_indices, garden_photos, family_photo_idx>>

parseVars == <<content, line_no, data, current_section, titles>>

packageVars == <<markdownText, photos, pdf, package>>

docVars == <<parseVars, packageVars>>

adaptiveVars == <<prog, images, additional_text, delay, service, pc, stage, request,
                  attempt, err, resp, batch_num, extracted_parts, result, outcome,
                  stages, callCount, waitCount, callWaits, callAttempts, rlStreak,
                  lastResp, otherFail, issued, groupResults>>

\* Response texts of the generation service for extraction calls.
Texts == { <<>>, << <<"md">> >> }

NoRequest == [kind |-> "none", lo |-> 0, hi |-> 0, text |-> "", parts |-> <<>>]
NoResp == [stage |-> "NONE", kind |-> "none", text |-> NoneValue]
NoFail == [set |-> FALSE, calls |-> 0, waits |-> 0, nstages |-> 0, error |-> <<>>]

\* The texts the service may answer a request with.
ResponsesTo(req) == IF req.kind = "categorize" THEN CategorizeResponses ELSE Texts

\* The images in a request's contents: images[lo:hi]
Contents(req) == SubSeq(images, req.lo + 1, req.hi)

\* Number of images in a request's contents.
NumImages(req) == req.hi - req.lo

\* The service of the BULK-only rate limit scenario refuses exactly the calls
\* that carry all the images.
Refused(req) == Len(images) > 0 /\ NumImages(req) >= Len(images)

MaySucceed(req) == service = "any" \/ ~Refused(req)

FailuresOf(req) ==
    IF service = "any" THEN ErrorTexts
    ELSE IF Refused(req) THEN {<<"429", "Quota", "exceeded">>, <<"Rate", "retry_delay", "7">>}
    ELSE {}

StageAfterBulkAlwaysSequential(n) == "SEQUENTIAL"

\* process_adaptive, line 403: BATCHED only for more than 3 images.
StageAfterBulk(n) == IF n > BatchedMinImages THEN "BATCHED" ELSE "SEQUENTIAL"

\* batch_size of a stage: strategy_in_batches(batch_size=3), strategy_one_by_one: 1.
GroupSize(st) == IF st = "BATCHED" THEN BatchSize ELSE 1

\* delay of a stage: line 406 delay=delay, line 417 delay=max(delay, 5).
StageDelay(st) == IF st = "BATCHED" THEN delay ELSE Max(delay, MinSequentialDelay)

TotalBatchesPerImage(n, bs) == n

\* total_batches = (len(images) + batch_size - 1) // batch_size
TotalBatches(n, bs) == (n + bs - 1) \div bs

GroupRequestOverlap(b, bs, n) ==
    [kind |-> "group", lo |-> Max(b * bs - 1, 0), hi |-> Min(b * bs + bs, n),
     text |-> "", parts |-> <<>>]

GroupRequestWhole(b, bs, n) ==
    [kind |-> "group", lo |-> 0, hi |-> n, text |-> "", parts |-> <<>>]

\* contents of the call for group b (0-based): images[start_idx:end_idx]
GroupRequest(b, bs, n) ==
    [kind |-> "group", lo |-> b * bs, hi |-> Min(b * bs + bs, n), text |-> "", parts |-> <<>>]

\* contents of the combine call: all_infos (lines 346-349, 370-373)
CombineRequest(parts, text) ==
    [kind |-> "combine", lo |-> 0, hi |-> 0, text |-> text, parts |-> parts]

\* one entry of extracted_parts: "--- Gruppe k ---\n{result}" / "--- Bild k ---\n{result}"
Part(st, b, r) ==
    [label |-> IF st = "BATCHED" THEN "Gruppe" ELSE "Bild", num |-> b + 1, result |-> r]

\* first request of a strategy: group 0, or the combine call when there is no group
FirstRequest(st) ==
    IF TotalBatches(Len(images), GroupSize(st)) > 0
    THEN GroupRequest(0, GroupSize(st), Len(images))
    ELSE CombineRequest(<<>>, additional_text)

\* wait_with_countdown(seconds)
Wait(seconds) ==
    waitCount' = IF Sleeps(seconds) THEN waitCount + 1 ELSE waitCount

NoWait == UNCHANGED waitCount

\* entry of call_gemini_with_retry(contents)
EnterRetryCall(req) ==
    /\ request' = req
    /\ attempt' = 0
    /\ callWaits' = 0
    /\ callAttempts' = 0
    /\ rlStreak' = 0
    /\ pc' = "attempt"

\* history: one more call_gemini_with_retry request in the current stage
Issue(req) == issued' = Append(issued, req)

EnterStrategyKeepParts(st) ==
    /\ stage' = st
    /\ stages' = Append(stages, st)
    /\ UNCHANGED extracted_parts
    /\ batch_num' = 0
    /\ issued' = <<FirstRequest(st)>>
    /\ groupResults' = <<>>
    /\ EnterRetryCall(FirstRequest(st))

\* entry of a strategy (strategy_in_batches / strategy_one_by_one)
EnterStrategy(st) ==
    /\ stage' = st
    /\ stages' = Append(stages, st)
    /\ extracted_parts' = <<>>
    /\ batch_num' = 0
    /\ issued' = <<FirstRequest(st)>>
    /\ groupResults' = <<>>
    /\ EnterRetryCall(FirstRequest(st))

\* history: remember the counters at the first failure not classified rate-limit
NoteFailure(e) ==
    otherFail' = IF ~IsRateLimitError(e) /\ ~otherFail.set
                 THEN [set |-> TRUE, calls |-> callCount + 1, waits |-> waitCount,
                       nstages |-> Len(stages), error |-> e]
                 ELSE otherFail

Raise ==
    /\ outcome' = "raised"
    /\ pc' = "done"

Return(v) ==
    /\ result' = v
    /\ outcome' = "returned"
    /\ pc' = "done"

\* ------------------------------------------------------ process_adaptive
EntryStageNoSingle(n, text) ==
    IF n = 0 THEN (IF text # "" THEN "TEXT" ELSE "NONE") ELSE "BULK"

\* lines 379-391: what process_adaptive does first, by the number of images
EntryStage(n, text) ==
    IF n = 0 THEN (IF text # "" THEN "TEXT" ELSE "NONE")
    ELSE IF n = 1 THEN "SINGLE"
    ELSE "BULK"

\* lines 376-391: dispatch on the number of images
Begin ==
    /\ pc = "start"
    /\ UNCHANGED docVars
    /\ UNCHANGED photoVars
    /\ prog = "process_adaptive"
    /\ \/ /\ EntryStage(Len(images), additional_text) = "NONE"
          /\ Return(NoneValue)
          /\ UNCHANGED <<stage, stages, request, attempt, callWaits, callAttempts, rlStreak,
                         issued>>
       \/ /\ EntryStage(Len(images), additional_text) = "TEXT"
          /\ stage' = "TEXT"
          /\ stages' = Append(stages, "TEXT")
          /\ EnterRetryCall([kind |-> "text", lo |-> 0, hi |-> 0,
                             text |-> additional_text, parts |-> <<>>])
          /\ Issue([kind |-> "text", lo |-> 0, hi |-> 0,
                    text |-> additional_text, parts |-> <<>>])
          /\ UNCHANGED <<result, outcome>>
       \/ /\ EntryStage(Len(images), additional_text) = "SINGLE"
          /\ stage' = "SINGLE"
          /\ stages' = Append(stages, "SINGLE")
          /\ EnterRetryCall([kind |-> "single", lo |-> 0, hi |-> 1,
                             text |-> additional_text, parts |-> <<>>])
          /\ Issue([kind |-> "single", lo |-> 0, hi |-> 1,
                    text |-> additional_text, parts |-> <<>>])
          /\ UNCHANGED <<result, outcome>>
       \/ /\ EntryStage(Len(images), additional_text) = "BULK"
          /\ stage' = "BULK"
          /\ stages' = Append(stages, "BULK")
          /\ request' = [kind |-> "bulk", lo |-> 0, hi |-> Len(images),
                         text |-> additional_text, parts |-> <<>>]
          /\ pc' = "bulk_call"
          /\ UNCHANGED <<attempt, callWaits, callAttempts, rlStreak, result, outcome,
                         issued>>
    /\ UNCHANGED <<prog, images, additional_text, delay, service, err, resp, batch_num,
                   extracted_parts, callCount, waitCount, lastResp, otherFail,
                   groupResults>>

\* lines 393-395 with strategy_all_at_once (309-316): one call_gemini, no retry
BulkCall ==
    /\ pc = "bulk_call"
    /\ UNCHANGED docVars
    /\ UNCHANGED <<issued, groupResults>>
    /\ UNCHANGED photoVars
    /\ callCount' = callCount + 1
    /\ \/ /\ MaySucceed(request)
          /\ \E r \in Texts :
                /\ lastResp' = [stage |-> stage, kind |-> request.kind, text |-> r]
                /\ Return(r)
          /\ UNCHANGED <<err, otherFail>>
       \/ /\ \E e \in FailuresOf(request) :
                /\ err' = e
                /\ NoteFailure(e)
          /\ pc' = "bulk_except"
          /\ UNCHANGED <<result, outcome, lastResp>>
    /\ UNCHANGED <<prog, images, additional_text, delay, service, stage, request, attempt,
                   resp, batch_num, extracted_parts, stages, waitCount,
                   callWaits, callAttempts, rlStreak>>

\* lines 396-403 and the entry of the next stage (404-406 or 416-417)
BulkExcept ==
    /\ pc = "bulk_except"
    /\ UNCHANGED docVars
    /\ UNCHANGED photoVars
    /\ \/ /\ IsRateLimitError(err)
          /\ Wait(Min(GetRetryDelay(err), StageDelayCap))
          /\ EnterStrategy(StageAfterBulk(Len(images)))
          /\ err' = <<>>
          /\ UNCHANGED outcome
       \/ /\ ~IsRateLimitError(err)
          /\ Raise
          /\ NoWait
          /\ UNCHANGED <<stage, stages, extracted_parts, batch_num, request, attempt,
                         callWaits, callAttempts, rlStreak, err, issued, groupResults>>
    /\ UNCHANGED <<prog, images, additional_text, delay, service, resp, result,
                   callCount, lastResp, otherFail>>

\* lines 409-417: BATCHED failed
BatchedExcept ==
    /\ pc = "batched_except"
    /\ UNCHANGED docVars
    /\ UNCHANGED photoVars
    /\ \/ /\ IsRateLimitError(err)
          /\ Wait(Min(GetRetryDelay(err), StageDelayCap))
          /\ EnterStrategy("SEQUENTIAL")
          /\ err' = <<>>
          /\ UNCHANGED outcome
       \/ /\ ~IsRateLimitError(err)
          /\ Raise
          /\ NoWait
          /\ UNCHANGED <<stage, stages, extracted_parts, batch_num, request, attempt,
                         callWaits, callAttempts, rlStreak, err, issued, groupResults>>
    /\ UNCHANGED <<prog, images, additional_text, delay, service, resp, result,
                   callCount, lastResp, otherFail>>

\* ------------------------------------------------- call_gemini_with_retry
\* line 243: call_gemini(contents) returns response.text
AttemptOk ==
    /\ pc = "attempt"
    /\ UNCHANGED docVars
    /\ UNCHANGED <<issued, groupResults>>
    /\ UNCHANGED photoVars
    /\ MaySucceed(request)
    /\ \E r \in ResponsesTo(request) :
          /\ resp' = r
          /\ lastResp' = [stage |-> stage, kind |-> request.kind, text |-> r]
    /\ callCount' = callCount + 1
    /\ callAttempts' = callAttempts + 1
    /\ pc' = "call_returned"
    /\ UNCHANGED <<prog, images, additional_text, delay, service, stage, request, attempt,
                   err, batch_num, extracted_parts, result, outcome, stages, waitCount,
                   callWaits, rlStreak, otherFail>>

\* line 243: call_gemini(contents) raises
AttemptFail ==
    /\ pc = "attempt"
    /\ UNCHANGED docVars
    /\ UNCHANGED <<issued, groupResults>>
    /\ UNCHANGED photoVars
    /\ \E e \in FailuresOf(request) :
          /\ err' = e
          /\ NoteFailure(e)
          /\ rlStreak' = IF IsRateLimitError(e) THEN rlStreak + 1 ELSE 0
    /\ callCount' = callCount + 1
    /\ callAttempts' = callAttempts + 1
    /\ pc' = "retry_except"
    /\ UNCHANGED <<prog, images, additional_text, delay, service, stage, request, attempt,
                   resp, batch_num, extracted_parts, result, outcome, stages, waitCount,
                   callWaits, lastResp>>

\* lines 244-251: the except clause, the next loop turn, and `return None`
RetryExcept ==
    /\ pc = "retry_except"
    /\ UNCHANGED docVars
    /\ UNCHANGED <<issued, groupResults>>
    /\ UNCHANGED photoVars
    /\ \/ /\ ShouldRetry(err, attempt)
          /\ Wait(GetRetryDelay(err))
          /\ callWaits' = IF Sleeps(GetRetryDelay(err)) THEN callWaits + 1 ELSE callWaits
          /\ attempt' = attempt + 1
          /\ err' = <<>>
          /\ IF attempt + 1 < MaxRetries
             THEN pc' = "attempt" /\ UNCHANGED resp
             ELSE pc' = "call_returned" /\ resp' = NoneValue
          /\ UNCHANGED outcome
       \/ /\ ~ShouldRetry(err, attempt)
          /\ IF stage = "BATCHED"
             THEN pc' = "batched_except" /\ UNCHANGED outcome
             ELSE IF stage = "CATEGORIZE"
             THEN pc' = "analyze_except" /\ UNCHANGED outcome
             ELSE Raise
          /\ NoWait
          /\ UNCHANGED <<attempt, callWaits, resp, err>>
    /\ UNCHANGED <<prog, images, additional_text, delay, service, stage, request,
                   batch_num, extracted_parts, result, stages, callCount, callAttempts,
                   rlStreak, lastResp, otherFail>>

\* --------------------------- strategy_in_batches / strategy_one_by_one
\* lines 336-341 (361-365): collect the group's result, wait, next group; after the
\* last group lines 343-349 (367-373) build the combine call
GroupCollect ==
    /\ pc = "call_returned"
    /\ UNCHANGED docVars
    /\ UNCHANGED photoVars
    /\ request.kind = "group"
    /\ LET parts == IF Truthy(resp)
                    THEN Append(extracted_parts, Part(stage, batch_num, resp))
                    ELSE extracted_parts
           total == TotalBatches(Len(images), GroupSize(stage))
       IN /\ extracted_parts' = parts
          /\ groupResults' = Append(groupResults, resp)
          /\ \/ /\ batch_num < total - 1
                /\ Wait(StageDelay(stage))
                /\ batch_num' = batch_num + 1
                /\ EnterRetryCall(GroupRequest(batch_num + 1, GroupSize(stage), Len(images)))
                /\ Issue(GroupRequest(batch_num + 1, GroupSize(stage), Len(images)))
             \/ /\ batch_num >= total - 1
                /\ NoWait
                /\ UNCHANGED batch_num
                /\ EnterRetryCall(CombineRequest(parts, additional_text))
                /\ Issue(CombineRequest(parts, additional_text))
    /\ UNCHANGED <<prog, images, additional_text, delay, service, stage, err, resp, result,
                   outcome, stages, callCount, lastResp, otherFail>>

\* `return call_gemini_with_retry(...)`: lines 349, 373, 381, 389 and 407-408, 418-419
CallReturn ==
    /\ pc = "call_returned"
    /\ UNCHANGED docVars
    /\ UNCHANGED <<issued, groupResults>>
    /\ UNCHANGED photoVars
    /\ request.kind \in {"text", "single", "combine"}
    /\ Return(resp)
    /\ UNCHANGED <<prog, images, additional_text, delay, service, stage, request, attempt,
                   err, resp, batch_num, extracted_parts, stages, callCount, waitCount,
                   callWaits, callAttempts, rlStreak, lastResp, otherFail>>

\* ------------------------------------------------------------ analyze_photos
\* lines 258-273: no photos, or find the duplicates and start the categorization call
AnalyzeBegin ==
    /\ pc = "start"
    /\ UNCHANGED docVars
    /\ prog = "analyze_photos"
    /\ \/ /\ Len(images) = 0
          /\ garden_photos' = <<>>
          /\ family_photo_idx' = NoIndex
          /\ duplicates' = {}
          /\ outcome' = "returned"
          /\ pc' = "done"
          /\ UNCHANGED <<unique_indices, stage, stages, request, attempt, callWaits,
                         callAttempts, rlStreak, issued>>
       \/ /\ Len(images) > 0
          /\ LET dups == FindDuplicates(images, DefaultThreshold)
                 unique == UniqueIndices(Len(images), dups)
             IN /\ duplicates' = dups
                /\ unique_indices' = unique
                /\ EnterRetryCall([kind |-> "categorize", lo |-> 0, hi |-> Len(unique),
                                   text |-> "", parts |-> <<>>])
                /\ Issue([kind |-> "categorize", lo |-> 0, hi |-> Len(unique),
                          text |-> "", parts |-> <<>>])
          /\ stage' = "CATEGORIZE"
          /\ stages' = Append(stages, "CATEGORIZE")
          /\ UNCHANGED <<garden_photos, family_photo_idx, outcome>>
    /\ UNCHANGED <<prog, images, additional_text, delay, service, err, resp, batch_num,
                   extracted_parts, result, callCount, waitCount, lastResp, otherFail,
                   threshold, groupResults>>

\* lines 276-300: parse the response; an exception in the try block (response is
\* None) is caught by line 302
AnalyzeParse ==
    /\ pc = "call_returned"
    /\ UNCHANGED docVars
    /\ UNCHANGED <<issued, groupResults>>
    /\ request.kind = "categorize"
    /\ LET out == IF resp = NoneValue
                  THEN AnalyzeFallback(unique_indices, duplicates)
                  ELSE AnalyzeResponse(resp, Len(images), unique_indices, duplicates)
       IN /\ garden_photos' = out.garden
          /\ family_photo_idx' = out.family
          /\ duplicates' = out.duplicates
    /\ outcome' = "returned"
    /\ pc' = "done"
    /\ UNCHANGED <<prog, images, additional_text, delay, service, stage, request, attempt,
                   err, resp, batch_num, extracted_parts, result, stages, callCount,
                   waitCount, callWaits, callAttempts, rlStreak, lastResp, otherFail,
                   threshold, unique_indices>>

\* lines 302-304: the categorization call raised
AnalyzeExcept ==
    /\ pc = "analyze_except"
    /\ UNCHANGED docVars
    /\ UNCHANGED <<issued, groupResults>>
    /\ LET out == AnalyzeFallback(unique_indices, duplicates)
       IN /\ garden_photos' = out.garden
          /\ family_photo_idx' = out.family
          /\ duplicates' = out.duplicates
    /\ outcome' = "returned"
    /\ pc' = "done"
    /\ UNCHANGED <<prog, images, additional_text, delay, service, stage, request, attempt,
                   err, resp, batch_num, extracted_parts, result, stages, callCount,
                   waitCount, callWaits, callAttempts, rlStreak, lastResp, otherFail,
                   threshold, unique_indices>>

\* ----------------------------------------------------------- find_duplicates
\* lines 175-185, called on its own with a threshold
FindDuplicatesRun ==
    /\ pc = "start"
    /\ UNCHANGED docVars
    /\ prog = "find_duplicates"
    /\ duplicates' = FindDuplicates(images, threshold)
    /\ outcome' = "returned"
    /\ pc' = "done"
    /\ UNCHANGED <<adaptiveVarsButPcOutcome, threshold, unique_indices, garden_photos,
                   family_photo_idx>>

\* -------------------------------------------------------------- parse_content
\* lines 426-438: the defaults, the lines of the content, no section open
ParseContentBegin ==
    /\ pc = "start"
    /\ prog = "parse_content"
    /\ data' = DefaultData
    /\ current_section' = "None"
    /\ line_no' = 1
    /\ titles' = <<>>
    /\ pc' = "parse_loop"
    /\ UNCHANGED <<adaptiveVarsButPcOutcome, photoVars, packageVars, outcome, content>>

\* lines 440-487: one turn of the loop
ParseContentTurn ==
    /\ pc = "parse_loop"
    /\ line_no <= Len(content)
    /\ LET st == ParseContentLine([data |-> data, section |-> current_section,
                                   titles |-> titles, line_no |-> line_no,
                                   raises |-> FALSE],
                                  content[line_no])
       IN IF st.raises
          THEN /\ Raise
               /\ UNCHANGED <<data, current_section, line_no, titles>>
          ELSE /\ data' = st.data
               /\ current_section' = st.section
               /\ titles' = st.titles
               /\ line_no' = line_no + 1
               /\ UNCHANGED <<pc, outcome>>
    /\ UNCHANGED <<adaptiveVarsButPcOutcome, photoVars, packageVars, content>>

\* lines 489-492: after the last line
ParseContentReturn ==
    /\ pc = "parse_loop"
    /\ line_no > Len(content)
    /\ data' = FinalStrip(data)
    /\ outcome' = "returned"
    /\ pc' = "done"
    /\ UNCHANGED <<adaptiveVarsButPcOutcome, photoVars, packageVars, content, line_no,
                   current_section, titles>>

\* ----------------------------------------------------------- embed / extract
\* embed on the rendered PDF
Embed ==
    /\ pc = "start"
    /\ prog = "round_trip"
    /\ pdf' = embed(pdf, markdownText, photos)
    /\ pc' = "embedded"
    /\ UNCHANGED <<adaptiveVarsButPcOutcome, photoVars, parseVars, outcome, markdownText,
                   photos, package>>

\* extract on the PDF at hand: the rendered one, or the one embed returned
Extract ==
    /\ pc \in {"start", "embedded"}
    /\ prog = "round_trip"
    /\ package' = extract(pdf)
    /\ outcome' = "returned"
    /\ pc' = "done"
    /\ UNCHANGED <<adaptiveVarsButPcOutcome, photoVars, parseVars, markdownText, photos, pdf>>

\* ------------------------------------------------------------ specification
Idle ==
    /\ pc = "start"
    /\ stage = "NONE"
    /\ request = NoRequest
    /\ attempt = 0
    /\ err = <<>>
    /\ resp = NoneValue
    /\ batch_num = 0
    /\ extracted_parts = <<>>
    /\ result = NoneValue
    /\ outcome = "running"
    /\ stages = <<>>
    /\ callCount = 0
    /\ waitCount = 0
    /\ callWaits = 0
    /\ callAttempts = 0
    /\ rlStreak = 0
    /\ lastResp = NoResp
    /\ otherFail = NoFail
    /\ issued = <<>>
    /\ groupResults = <<>>
    /\ duplicates = {}
    /\ unique_indices = <<>>
    /\ garden_photos = <<>>
    /\ family_photo_idx = NoIndex

\* A PDF as the renderer returns it: pages, a plain subject, no attachment.
RenderedPdf ==
    [pages |-> <<"page1", "page2">>,
     subject |-> [kind |-> "text", body |-> <<"Exposé">>],
     attachments |-> <<>>]

PackageIdle ==
    /\ markdownText = <<>>
    /\ photos = <<>>
    /\ pdf = RenderedPdf
    /\ package = Null

DocIdle ==
    /\ content = <<>>
    /\ line_no = 0
    /\ data = DefaultData
    /\ current_section = "None"
    /\ titles = <<>>
    /\ PackageIdle

\* The photo lists of the model: up to MaxPhotos photos of the pool.
PhotoLists == SeqsUpTo(PhotoPool, MaxPhotos)

\* The thresholds find_duplicates is run with.
Thresholds == {0, 1, 5, 6, 10, 11, 65}

InitAdaptive ==
    /\ prog = "process_adaptive"
    /\ images \in { [i \in 1..n |-> i] : n \in 0..MaxImages }
    /\ additional_text \in {"", "notes"}
    /\ delay \in {0, 10}
    /\ service \in {"any", "bulk_limited"}
    /\ threshold = DefaultThreshold
    /\ Idle
    /\ DocIdle

InitAnalyze ==
    /\ prog = "analyze_photos"
    /\ images \in PhotoLists
    /\ additional_text = ""
    /\ delay = 0
    /\ service = "any"
    /\ threshold = DefaultThreshold
    /\ Idle
    /\ DocIdle

InitFindDuplicates ==
    /\ prog = "find_duplicates"
    /\ images \in PhotoLists
    /\ additional_text = ""
    /\ delay = 0
    /\ service = "any"
    /\ threshold \in Thresholds
    /\ Idle
    /\ DocIdle

\* The texts parse_content is given: up to MaxContentLines lines.
ParseContents == SeqsUpTo(ContentLines, MaxContentLines)

InitParse ==
    /\ prog = "parse_content"
    /\ images = <<>>
    /\ additional_text = ""
    /\ delay = 0
    /\ service = "any"
    /\ threshold = DefaultThreshold
    /\ Idle
    /\ content \in ParseContents
    /\ line_no = 0
    /\ data = DefaultData
    /\ current_section = "None"
    /\ titles = <<>>
    /\ PackageIdle

\* The Markdown texts given to embed.
MarkdownTexts ==
    { <<>>, <<"MÜLLER", "|||", "KÖLN", "\n", "- ", "Anna">>, <<"\"", "ü", "\\n", "\n">> }

\* The photos a package is made of: two file names, one of them used twice.
PackagePhotos ==
    { [filename |-> f[1], bytes |-> f[2], isFamilyPhoto |-> b] :
        f \in { <<"a.jpg", "img1">>, <<"b.jpg", "img2">>, <<"a.jpg", "img3">> },
        b \in BOOLEAN }

\* ProjectPackage: at most one photo has isFamilyPhoto = true
PhotoPackages ==
    { q \in SeqsUpTo(PackagePhotos, MaxPackagePhotos) :
        Cardinality({ k \in 1..Len(q) : q[k].isFamilyPhoto }) <= 1 }

InitPackage ==
    /\ prog = "round_trip"
    /\ images = <<>>
    /\ additional_text = ""
    /\ delay = 0
    /\ service = "any"
    /\ threshold = DefaultThreshold
    /\ Idle
    /\ content = <<>>
    /\ line_no = 0
    /\ data = DefaultData
    /\ current_section = "None"
    /\ titles = <<>>
    /\ markdownText \in MarkdownTexts
    /\ photos \in PhotoPackages
    /\ pdf = RenderedPdf
    /\ package = Null

vars == <<adaptiveVars, photoVars, docVars>>

\* process_adaptive
Init == InitAdaptive

Next ==
    \/ Begin
    \/ BulkCall
    \/ BulkExcept
    \/ BatchedExcept
    \/ AttemptOk
    \/ AttemptFail
    \/ RetryExcept
    \/ GroupCollect
    \/ CallReturn

Spec == Init /\ [][Next]_vars

\* analyze_photos and find_duplicates
InitPhotos == InitAnalyze \/ InitFindDuplicates

NextPhotos ==
    \/ AnalyzeBegin
    \/ AttemptOk
    \/ AttemptFail
    \/ RetryExcept
    \/ AnalyzeParse
    \/ AnalyzeExcept
    \/ FindDuplicatesRun

SpecPhotos == InitPhotos /\ [][NextPhotos]_vars

\* parse_content
NextParse ==
    \/ ParseContentBegin
    \/ ParseContentTurn
    \/ ParseContentReturn

SpecParse == InitParse /\ [][NextParse]_vars

\* embed and extract
NextPackage ==
    \/ Embed
    \/ Extract

SpecPackage == InitPackage /\ [][NextPackage]_vars

\* ------------------------------------------------------------------ claims
Range(q) == { q[x] : x \in 1..Len(q) }

\* The stages a run has entered once SEQUENTIAL is reached.
FullDowngrade(n) ==
    IF n > 3 THEN <<"BULK", "BATCHED", "SEQUENTIAL">> ELSE <<"BULK", "SEQUENTIAL">>

\* C1: with more than 3 images the stage entered after a rate-limited BULK call is
\* BATCHED, and SEQUENTIAL is entered only after BATCHED; with 2 or 3 images
\* BATCHED is never entered and the stage after a rate-limited BULK call is
\* SEQUENTIAL.  A run that has entered BULK only is still in BULK, has returned
\* the BULK response, or has raised a failure that is not a rate-limit failure.
C1_StageDowngradeOrder ==
    LET n == Len(images)
    IN /\ (n > 3 /\ Len(stages) >= 2) => stages[2] = "BATCHED"
       /\ (n > 3 /\ "SEQUENTIAL" \in Range(stages)) =>
             stages = <<"BULK", "BATCHED", "SEQUENTIAL">>
       /\ n \in {2, 3} => "BATCHED" \notin Range(stages)
       /\ (n \in {2, 3} /\ Len(stages) >= 2) => stages = <<"BULK", "SEQUENTIAL">>
       /\ stages = <<"BULK">> =>
             \/ pc \in {"bulk_call", "bulk_except"}
             \/ pc = "done" /\ outcome = "returned"
             \/ pc = "done" /\ outcome = "raised" /\ ~IsRateLimitError(err)

C1_Witness ==
    /\ Len(images) > 3
    /\ stages = <<"BULK", "BATCHED", "SEQUENTIAL">>
    /\ pc = "done"
    /\ outcome = "returned"

\* C2: once a generation call of process_adaptive has raised a failure that is not
\* classified rate-limit, no further generation call is made, no wait is slept and
\* no stage is entered, and the run ends by raising that failure.
C2_NonRateLimitFailFast ==
    otherFail.set =>
        /\ callCount = otherFail.calls
        /\ waitCount = otherFail.waits
        /\ Len(stages) = otherFail.nstages
        /\ err = otherFail.error
        /\ pc \in {"bulk_except", "retry_except", "batched_except", "done"}
        /\ pc = "done" => outcome = "raised"

C2_Witness ==
    /\ otherFail.set
    /\ pc = "done"
    /\ outcome = "raised"
    /\ stage = "BATCHED"
    /\ request.kind = "combine"
    /\ otherFail.calls > 3

\* C3: with more than one image, a rate-limit failure is raised to the caller of
\* process_adaptive only from SEQUENTIAL, after BULK and (for more than 3 images)
\* BATCHED have been entered and left, and after the failing call was rate-limited
\* on MaxRetries consecutive attempts.
C3_RateLimitOnlyAfterAllStages ==
    (outcome = "raised" /\ IsRateLimitError(err) /\ Len(images) > 1) =>
        /\ stages = FullDowngrade(Len(images))
        /\ stage = "SEQUENTIAL"
        /\ rlStreak = MaxRetries
        /\ callAttempts = MaxRetries

C3_Witness ==
    /\ outcome = "raised"
    /\ IsRateLimitError(err)
    /\ Len(images) > 3
    /\ request.kind = "group"
    /\ batch_num = 1

\* The current call_gemini_with_retry has raised (nothing handled it yet).
RetryCallRaised ==
    \/ pc = "batched_except"
    \/ pc = "done" /\ outcome = "raised" /\ stage # "BULK"

\* C4: call_gemini_with_retry makes at most MaxRetries attempts; every attempt but
\* the last one made was rate-limited and followed by a wait; it returns the response
\* of its first successful attempt; and it raises a rate-limit failure exactly when
\* MaxRetries consecutive attempts were rate-limited (any other failure is raised by
\* the attempt that met it).
C4_RetryingCaller ==
    /\ callAttempts <= MaxRetries
    /\ pc = "attempt" =>
          /\ attempt < MaxRetries
          /\ callAttempts = attempt
          /\ rlStreak = attempt
          /\ callWaits = attempt
    /\ pc = "call_returned" =>
          /\ resp = lastResp.text
          /\ lastResp.kind = request.kind
          /\ callAttempts = rlStreak + 1
          /\ callWaits = rlStreak
    /\ RetryCallRaised =>
          /\ IsRateLimitError(err) <=> rlStreak = MaxRetries
          /\ IsRateLimitError(err) => callAttempts = MaxRetries /\ callWaits = MaxRetries - 1
          /\ ~IsRateLimitError(err) => callAttempts = callWaits + 1 /\ rlStreak = 0
    /\ rlStreak = MaxRetries => pc = "retry_except" \/ RetryCallRaised

C4_Witness ==
    /\ pc = "call_returned"
    /\ callAttempts = MaxRetries
    /\ callWaits = MaxRetries - 1
    /\ resp # <<>>

\* C5: with more than 3 images and a service that rate-limits exactly the calls
\* carrying all the images, process_adaptive never enters SEQUENTIAL and never
\* raises, and what it returns is the response of the combine call of BATCHED.
C5_BulkLimitedEndsInBatched ==
    (service = "bulk_limited" /\ Len(images) > 3) =>
        /\ "SEQUENTIAL" \notin Range(stages)
        /\ outcome # "raised"
        /\ pc = "done" =>
              /\ outcome = "returned"
              /\ stages = <<"BULK", "BATCHED">>
              /\ lastResp.stage = "BATCHED"
              /\ lastResp.kind = "combine"
              /\ result = lastResp.text
              /\ request.parts = extracted_parts

C5_Witness ==
    /\ service = "bulk_limited"
    /\ Len(images) > 3
    /\ pc = "done"
    /\ outcome = "returned"
    /\ result # <<>>
    /\ Len(extracted_parts) = 2

\* Number of hash bits in which photos i and j (0-based) differ.
Differing(i, j) ==
    Cardinality({ c \in 1..(HashSize * HashSize) :
                    PoolHash[images[i + 1]][c] # PoolHash[images[j + 1]][c] })

\* The pairs (i, j), i < j, whose hashes differ in fewer than thr bits.
ClosePairs(thr) ==
    { q \in (0..(Len(images) - 1)) \X (0..(Len(images) - 1)) :
        q[1] < q[2] /\ Differing(q[1], q[2]) < thr }

\* find_duplicates has returned `duplicates` for `threshold`
DuplicatesReturned == prog = "find_duplicates" /\ pc = "done"

\* C6 as stated: for every close pair (i, j), j is in the duplicate set and i is not.
C6_SurvivorRuleAsStated ==
    DuplicatesReturned =>
        \A q \in ClosePairs(threshold) : q[2] \in duplicates /\ q[1] \notin duplicates

\* C6 amended: for every close pair (i, j), j is in the duplicate set, and i is in it
\* only when i is itself close to an earlier image k < i; index 0 is never in it,
\* and nothing is in it that is not the later image of a close pair.
C6_SurvivorRule ==
    DuplicatesReturned =>
        /\ \A q \in ClosePairs(threshold) :
              /\ q[2] \in duplicates
              /\ q[1] \in duplicates =>
                    \E k \in 0..(q[1] - 1) : <<k, q[1]>> \in ClosePairs(threshold)
        /\ 0 \notin duplicates
        /\ \A j \in duplicates : \E q \in ClosePairs(threshold) : q[2] = j

C6_Witness ==
    /\ DuplicatesReturned
    /\ images = <<0, 5, 10>>
    /\ threshold = 10
    /\ <<1, 2>> \in ClosePairs(threshold)
    /\ <<0, 2>> \notin ClosePairs(threshold)
    /\ duplicates = {1, 2}

\* C7: the duplicate set returned for a threshold contains the duplicate set of every
\* smaller threshold and is contained in that of every larger one (so it is never
\* the smaller set), for the same photos.
C7_ThresholdMonotone ==
    DuplicatesReturned =>
        \A t \in Thresholds :
            /\ t <= threshold =>
                  /\ FindDuplicates(images, t) \subseteq duplicates
                  /\ Cardinality(FindDuplicates(images, t)) <= Cardinality(duplicates)
            /\ t >= threshold =>
                  /\ duplicates \subseteq FindDuplicates(images, t)
                  /\ Cardinality(duplicates) <= Cardinality(FindDuplicates(images, t))

C7_Witness ==
    /\ DuplicatesReturned
    /\ threshold = 11
    /\ duplicates = {1, 2}
    /\ FindDuplicates(images, 10) = {2}
    /\ FindDuplicates(images, 5) = {}

\* The photos that are not within the default threshold of an earlier photo.
NonDuplicates ==
    { i \in 0..(Len(images) - 1) :
        ~\E k \in 0..(i - 1) : Differing(k, i) < DefaultThreshold }

\* q lists exactly the members of S, in ascending order
IsAscendingListOf(q, S) ==
    /\ Range(q) = S
    /\ \A x, y \in 1..Len(q) : x < y => q[x] < q[y]

\* analyze_photos has returned and its categorization call had raised
CategorizationFailed ==
    prog = "analyze_photos" /\ pc = "done" /\ err # <<>>

\* analyze_photos has returned and its categorization call had returned a response
CategorizationSucceeded ==
    prog = "analyze_photos" /\ pc = "done" /\ err = <<>> /\ Len(images) > 0

\* C8: analyze_photos never raises; when its categorization call failed (retries
\* exhausted on rate limits, or any other failure) it returns all non-duplicate
\* indices in ascending order, no family index, and the detector's duplicate set.
C8_CategorizationDegrades ==
    prog = "analyze_photos" =>
        /\ outcome # "raised"
        /\ CategorizationFailed =>
              /\ outcome = "returned"
              /\ IsAscendingListOf(garden_photos, NonDuplicates)
              /\ family_photo_idx = NoIndex
              /\ duplicates = (0..(Len(images) - 1)) \ NonDuplicates

C8_Witness ==
    /\ CategorizationFailed
    /\ ~IsRateLimitError(err)
    /\ duplicates # {}
    /\ Len(garden_photos) = 2

\* The response-local (1-based) number of non-duplicate photo i.
LocalNumber(i) == Cardinality({ x \in NonDuplicates : x <= i })

\* The lines of the response that are records "k|category|..." with an integer k.
Records == { x \in 1..Len(resp) : Len(resp[x]) >= 2 /\ resp[x][1] \in IntFields }

\* The records labeled FAMILY whose k names one of the m non-duplicate photos.
FamilyRecords ==
    { x \in Records : /\ CategoryOf(resp[x][2]) = "FAMILIE"
                      /\ IntValue(resp[x][1]) \in 1..Cardinality(NonDuplicates) }

\* C9 as stated: after a successful categorization every non-duplicate photo that no
\* record labels FAMILY is in gardenIndices.
C9_NonFamilyBecomesGarden ==
    CategorizationSucceeded =>
        \A i \in NonDuplicates :
            (~\E x \in FamilyRecords : IntValue(resp[x][1]) = LocalNumber(i))
                => i \in Range(garden_photos)

\* C10 as stated: after a successful categorization familyIndex is the photo named by
\* the first record labeled FAMILY, record number k naming the k-th non-duplicate
\* photo, and it is null when no record labeled FAMILY names a photo.
C10_FirstFamilyRecordElected ==
    CategorizationSucceeded =>
        IF FamilyRecords = {} THEN family_photo_idx = NoIndex
        ELSE LET first == CHOOSE x \in FamilyRecords : \A y \in FamilyRecords : x <= y
             IN /\ family_photo_idx \in NonDuplicates
                /\ LocalNumber(family_photo_idx) = IntValue(resp[first][1])

\* The group calls issued so far by the running strategy, in call order.
GroupsIssued == SelectSeq(issued, LAMBDA r : r.kind = "group")

RECURSIVE Flatten(_)
Flatten(q) == IF q = <<>> THEN <<>> ELSE Head(q) \o Flatten(Tail(q))

\* The images sent by the group calls issued so far, in the order sent.
ImagesSent == Flatten([k \in 1..Len(GroupsIssued) |-> Contents(GroupsIssued[k])])

\* Group sizes as the specification states them.
StatedGroupSize == IF stage = "BATCHED" THEN 3 ELSE 1

\* The strategy has issued its combine call: all its group calls are over.
StrategyComplete ==
    stage \in {"BATCHED", "SEQUENTIAL"} /\ request.kind = "combine"

\* C11: in BATCHED the k-th group call carries the images 3(k-1)+1 .. min(3k, n)
\* of the list and in SEQUENTIAL the k-th image alone, each group in the order
\* of the list; the images sent so far are a prefix of the list, so that no
\* image is sent by two group calls, and once the strategy has issued its
\* combine call they are the whole list.
C11_ConsecutiveGroups ==
    stage \in {"BATCHED", "SEQUENTIAL"} =>
        /\ \A k \in 1..Len(GroupsIssued) :
              /\ Contents(GroupsIssued[k]) =
                    SubSeq(images, (k - 1) * StatedGroupSize + 1,
                           Min(k * StatedGroupSize, Len(images)))
              /\ Len(Contents(GroupsIssued[k])) >= 1
        /\ ImagesSent = SubSeq(images, 1, Len(ImagesSent))
        /\ \A k \in 1..Len(issued) :
              issued[k].kind = "combine" <=> k = Len(GroupsIssued) + 1
        /\ StrategyComplete => ImagesSent = images

C11_Witness ==
    /\ stage = "BATCHED"
    /\ StrategyComplete
    /\ Len(images) = 4
    /\ Len(GroupsIssued) = 2
    /\ Len(Contents(GroupsIssued[2])) = 1
    /\ pc = "done"
    /\ outcome = "returned"

\* The groups of the running strategy (1-based) whose call returned a non-empty text.
NonEmptyGroups ==
    SelectSeq([k \in 1..Len(groupResults) |-> k], LAMBDA k : groupResults[k] # <<>>)

\* Exactly one combine call has been issued, after the last group call, and it
\* carries the supplementary text.
OneCombineAfterGroups ==
    /\ Len(GroupsIssued) = TotalBatches(Len(images), StatedGroupSize)
    /\ Len(groupResults) = Len(GroupsIssued)
    /\ Len(issued) = Len(GroupsIssued) + 1
    /\ issued[Len(issued)] = request
    /\ \A k \in 1..Len(GroupsIssued) : issued[k].kind = "group"
    /\ request.text = additional_text

\* C12 as stated: when BATCHED or SEQUENTIAL has issued its combine call, that
\* call is the only combine call of the strategy, it follows the last group call,
\* and its input holds one entry per group, in group order, carrying what that
\* group's call returned, the empty text included.
C12_OneResultPerGroup ==
    StrategyComplete =>
        /\ OneCombineAfterGroups
        /\ Len(request.parts) = Len(groupResults)
        /\ \A k \in 1..Len(groupResults) :
              /\ request.parts[k].num = k
              /\ request.parts[k].result = groupResults[k]

\* C12, amended: the combine input holds one entry per group whose call
\* returned a non-empty text, in group order; a group that returned the empty
\* text has no entry.
C12_OneResultPerNonEmptyGroup ==
    StrategyComplete =>
        /\ OneCombineAfterGroups
        /\ Len(request.parts) = Len(NonEmptyGroups)
        /\ \A j \in 1..Len(NonEmptyGroups) :
              /\ request.parts[j].num = NonEmptyGroups[j]
              /\ request.parts[j].result = groupResults[NonEmptyGroups[j]]
              /\ request.parts[j].label = IF stage = "BATCHED" THEN "Gruppe" ELSE "Bild"

C12_Witness ==
    /\ StrategyComplete
    /\ pc = "done"
    /\ outcome = "returned"
    /\ \E k \in 1..Len(groupResults) : groupResults[k] = <<>>
    /\ \E k \in 1..Len(groupResults) : groupResults[k] # <<>>
    /\ Len(request.parts) < Len(groupResults)

\* C13: with no image or one image process_adaptive makes at most one
\* call_gemini_with_retry request (TEXT for no image and some text, SINGLE for
\* one image) and is over when that request returns or raises, whatever the
\* failures: BULK, BATCHED and SEQUENTIAL are never entered and no group or
\* combine call is issued.  With no image and no text no generation call is made
\* and the result is None.
C13_SmallInputsOneRequest ==
    Len(images) <= 1 =>
        /\ stages \in {<<>>, <<"TEXT">>, <<"SINGLE">>}
        /\ stages = <<"TEXT">> => Len(images) = 0 /\ additional_text # ""
        /\ stages = <<"SINGLE">> => Len(images) = 1
        /\ pc \in {"start", "attempt", "retry_except", "call_returned", "done"}
        /\ Len(issued) <= 1
        /\ \A k \in 1..Len(issued) : issued[k] = request /\ request.kind \in {"text", "single"}
        /\ request.kind \in {"none", "text", "single"}
        /\ extracted_parts = <<>>
        /\ callCount <= MaxRetries
        /\ pc = "done" => /\ outcome \in {"returned", "raised"}
                          /\ Len(issued) = 1 \/ (Len(images) = 0 /\ additional_text = "")
                          /\ outcome = "returned" /\ Len(issued) = 1 => result = resp
        /\ (Len(images) = 0 /\ additional_text = "") =>
              /\ callCount = 0
              /\ issued = <<>>
              /\ pc = "done" => outcome = "returned" /\ result = NoneValue

C13_Witness ==
    /\ Len(images) = 1
    /\ pc = "done"
    /\ outcome = "raised"
    /\ IsRateLimitError(err)
    /\ callCount = MaxRetries
    /\ stages = <<"SINGLE">>

\* process_adaptive under the assumption that every call and every wait returns:
\* a step that can be taken is eventually taken.
SpecLive == Spec /\ WF_vars(Next)

\* The bound on generation calls as the specification states it, for n images.
StatedCallBound(n) == 1 + MaxRetries * ((n + 2) \div 3 + 1) + MaxRetries * (n + 1)

NoStageTwice == \A i, j \in 1..Len(stages) : stages[i] = stages[j] => i = j

\* C18: every run of process_adaptive ends (returns or raises), whatever the
\* number of images and whatever calls succeed or fail; the generation calls it
\* makes never exceed 1 + MaxRetries * (ceil(n/3) + 1) + MaxRetries * (n + 1),
\* and no stage is entered twice.
C18_Terminates ==
    /\ [](callCount <= StatedCallBound(Len(images)) /\ NoStageTwice)
    /\ <>(pc = "done" /\ outcome \in {"returned", "raised"})

C18_Witness ==
    /\ Len(images) = 4
    /\ pc = "done"
    /\ stages = <<"BULK", "BATCHED", "SEQUENTIAL">>
    /\ callCount = StatedCallBound(4)

\* SEQUENTIAL was entered because BATCHED was abandoned.
SequentialAfterBatched ==
    stage = "SEQUENTIAL" /\ stages = <<"BULK", "BATCHED", "SEQUENTIAL">>

\* C19: when SEQUENTIAL follows an abandoned BATCHED, the collected results hold
\* nothing of BATCHED: every entry is labelled "Bild", carries the number of an
\* image whose SEQUENTIAL call has returned and that call's text.  The first
\* SEQUENTIAL call carries the first image alone, and once the combine call is
\* issued every image has been sent again and the combine input is exactly the
\* entries collected in SEQUENTIAL.
C19_SequentialStartsAfresh ==
    SequentialAfterBatched =>
        /\ Len(issued) >= 1
        /\ issued[1].kind = "group"
        /\ Contents(issued[1]) = <<images[1]>>
        /\ Len(extracted_parts) <= Len(groupResults)
        /\ \A j \in 1..Len(extracted_parts) :
              /\ extracted_parts[j].label = "Bild"
              /\ extracted_parts[j].num \in 1..Len(groupResults)
              /\ extracted_parts[j].result = groupResults[extracted_parts[j].num]
        /\ request.kind = "combine" =>
              /\ ImagesSent = images
              /\ Len(groupResults) = Len(images)
              /\ request.parts = extracted_parts

C19_Witness ==
    /\ SequentialAfterBatched
    /\ lastResp.stage = "BATCHED"
    /\ lastResp.kind = "group"
    /\ lastResp.text # <<>>
    /\ pc = "attempt"
    /\ callCount >= 1 + 1 + MaxRetries
    /\ extracted_parts = <<>>
    /\ request = GroupRequest(0, 1, Len(images))

\* C17: when analyze_photos has returned, the garden photos, the family photo
\* (when there is one) and the duplicates are indices of the photo list, and no
\* index is in two of the three outputs.
C17_OutputsDisjoint ==
    (prog = "analyze_photos" /\ pc = "done") =>
        LET n == Len(images)
            garden == Range(garden_photos)
            family == IF family_photo_idx = NoIndex THEN {} ELSE {family_photo_idx}
        IN /\ garden \subseteq 0..(n - 1)
           /\ family \subseteq 0..(n - 1)
           /\ duplicates \subseteq 0..(n - 1)
           /\ garden \cap family = {}
           /\ garden \cap duplicates = {}
           /\ family \cap duplicates = {}

\* The chunks the texts of the model and the defaults are written with.
ContentChunks ==
    UNION { Range(l) : l \in ContentLines \cup {DefaultData.family_name, DefaultData.city} }

IsString(s) == s \in Seq(ContentChunks)

IsStringList(q) == \A k \in 1..Len(q) : IsString(q[k])

\* The lines of the content that are not blank.
TextLines == { k \in 1..Len(content) : Strip(content[k]) # <<>> }

\* C14: parse_content raises nothing for any text and returns a dictionary with
\* all eight fields: three lists of strings and five strings.  A text with no
\* line that is not blank gives the defaults, and a text without any section
\* header gives empty lists and empty text fields.
C14_ParseContentTotal ==
    prog = "parse_content" =>
        /\ outcome # "raised"
        /\ pc \in {"start", "parse_loop", "done"}
        /\ pc = "done" =>
              /\ outcome = "returned"
              /\ line_no = Len(content) + 1
              /\ DOMAIN data = {"family_name", "city", "members", "garden_facts", "budget",
                                "wishes", "background", "notes"}
              /\ IsString(data.family_name) /\ IsString(data.city)
              /\ IsString(data.budget) /\ IsString(data.background) /\ IsString(data.notes)
              /\ IsStringList(data.members) /\ IsStringList(data.garden_facts)
              /\ IsStringList(data.wishes)
              /\ TextLines = {} => data = DefaultData
              /\ (\A k \in TextLines : HeaderOf(Strip(content[k])) = "") =>
                    /\ data.members = <<>> /\ data.garden_facts = <<>> /\ data.wishes = <<>>
                    /\ data.budget = <<>> /\ data.background = <<>> /\ data.notes = <<>>

C14_Witness ==
    /\ prog = "parse_content"
    /\ pc = "done"
    /\ outcome = "returned"
    /\ content = << <<"-", " ", "Anna">>, <<"BUDGET", " ", "offen">>, <<"Familienmitglieder:">> >>
    /\ titles = <<>>
    /\ data.family_name = <<"FAMILIE">>
    /\ data.members = <<>>
    /\ data.budget = <<>>

\* The lines parse_content has gone through that carry the title delimiter.
TitleLinesRead ==
    { k \in 1..Len(content) : k < line_no /\ HasDelimiter(Strip(content[k])) }

FirstTitleLine == CHOOSE k \in TitleLinesRead : \A j \in TitleLinesRead : k <= j

\* C15: once parse_content has gone through a title line, family name and city
\* are those of the first title line of the text, whatever the later lines are
\* and whatever the first title line carries.
C15_FirstTitleLineOnly ==
    (prog = "parse_content" /\ TitleLinesRead # {}) =>
        /\ data.family_name = TitleOf(Strip(content[FirstTitleLine])).family_name
        /\ data.city = TitleOf(Strip(content[FirstTitleLine])).city

\* extract has run on the PDF embed returned.
RoundTripDone ==
    prog = "round_trip" /\ pc = "done" /\ pdf.subject.kind = "json"

\* C16: extract on the PDF that embed returned gives a package whose Markdown
\* text is the text given to embed and whose photos are, in order, the photos
\* given to embed with the same file names and the same isFamilyPhoto flags,
\* for every package of 0 to MaxPackagePhotos photos.
C16_RoundTripFidelity ==
    RoundTripDone =>
        /\ package.kind = "package"
        /\ package.markdownText = markdownText
        /\ Len(package.photos) = Len(photos)
        /\ \A k \in 1..Len(photos) :
              /\ package.photos[k].filename = photos[k].filename
              /\ package.photos[k].isFamilyPhoto = photos[k].isFamilyPhoto

C16_Witness ==
    /\ RoundTripDone
    /\ Len(photos) = 5
    /\ photos[3].isFamilyPhoto
    /\ photos[1].filename = photos[4].filename
    /\ markdownText = <<"\"", "ü", "\\n", "\n">>
    /\ package.kind = "package"
    /\ Len(package.photos) = 5
    /\ package.photos[3].isFamilyPhoto

====
